---- MODULE Spec2Model ----
(***************************************************************************)
(* Cross-repository text search of graphqlbackend/textsearch.go:           *)
(* SearchRepos (the orchestrator and its worker goroutines), searchRepo,   *)
(* textSearch and accumulate.                                               *)
(*                                                                         *)
(* Spec     the whole SearchRepos call: main goroutine, the workers, the   *)
(*          accumulate goroutine and the caller, who may cancel the        *)
(*          incoming context.                                              *)
(* LiveSpec Spec with weak fairness on every goroutine's steps (the Go     *)
(*          scheduler runs every runnable goroutine); the caller's         *)
(*          cancellation carries no fairness.                              *)
(* AccSpec  accumulate alone, run twice on the same batches that arrive on *)
(*          its responses channel in any order.                            *)
(* TsSpec   one textSearch call, with a context that may be cancelled      *)
(*          while the request is in flight.                                *)
(***************************************************************************)
EXTENDS Integers, Sequences, FiniteSets, TLC

(***************************************************************************)
(* Bounds of the model.                                                    *)
(***************************************************************************)
\* Number of worker goroutines SearchRepos starts; the code's loop bound is
\* 10 (textsearch.go:193), scaled down here.
ConcurrencyLimit == 2
\* Longest args.Repos list.
MaxRepos == 3
\* AccSpec: most batches sent on the responses channel.
MaxBatches == 2

(***************************************************************************)
(* Data.                                                                   *)
(***************************************************************************)
RepoNames == {"a", "b"}
FilePaths == {"x", "y"}

\* strings.Compare orders strings bytewise; the model's strings are single
\* letters, ordered by their byte.
Byte(s) ==
    CASE s = "a" -> 97
      [] s = "b" -> 98
      [] s = "x" -> 120
      [] s = "y" -> 121
      [] OTHER -> 0

StringsCompare(s, t) ==
    IF Byte(s) < Byte(t) THEN -1 ELSE IF Byte(s) > Byte(t) THEN 1 ELSE 0

\* The revision backend.Repos.ResolveRev resolves a repository to.
CommitOf(repoName) == IF repoName = "a" THEN "c1" ELSE "c2"

\* uri.Parse(repoName + "?" + commit + "#" + path): of a URL without a
\* scheme, everything before "?" is the Path, the part between "?" and "#" is
\* the RawQuery and the part after "#" is the Fragment.
UriParse(repoName, commit, path) ==
    [Path |-> repoName, RawQuery |-> commit, Fragment |-> path]

\* One repoMatch: its uri and len(lineMatches).
RepoMatchOf(repoName, commit, fm) ==
    [uri |-> UriParse(repoName, commit, fm.JPath), lineMatches |-> fm.n]

\* The fileMatch list the searcher answers for a repository (fixed backend
\* responses): JPath and the number of JLineMatches.
FileMatches(repoName) ==
    IF repoName = "a"
    THEN << [JPath |-> "y", n |-> 1], [JPath |-> "x", n |-> 1] >>
    ELSE << [JPath |-> "x", n |-> 0] >>

\* searchRepo's successful return value: one repoMatch per fileMatch, in
\* the order of the response.
RepoMatches(repoName) ==
    [k \in 1..Len(FileMatches(repoName)) |->
        RepoMatchOf(repoName, CommitOf(repoName), FileMatches(repoName)[k])]

(***************************************************************************)
(* accumulate: the comparison and the sort.                                *)
(***************************************************************************)
\* The less function handed to sort.Slice.
Less(x, y) ==
    IF x.lineMatches # y.lineMatches
    THEN x.lineMatches < y.lineMatches
    ELSE StringsCompare(x.uri.Path, y.uri.Path) < 0

\* s is ordered by Less: no later element is Less than an earlier one.
IsSortedByLess(s) ==
    \A i, j \in 1..Len(s) : i < j => ~Less(s[j], s[i])

\* The sequences that result from putting e into the Less-ordered t.
Inserts(t, e) ==
    { SubSeq(t, 1, k) \o <<e>> \o SubSeq(t, k + 1, Len(t)) :
        k \in { m \in 0..Len(t) :
                  /\ \A i \in 1..m : ~Less(e, t[i])
                  /\ \A i \in (m + 1)..Len(t) : ~Less(t[i], e) } }

\* sort.Slice(flattened, less): a permutation of flattened ordered by Less.
\* sort.Slice is not stable, so elements neither of which is Less than the
\* other come out in any order: every Less-ordered permutation is a result.
RECURSIVE SortSlice(_)
SortSlice(s) ==
    IF s = <<>>
    THEN { <<>> }
    ELSE UNION { Inserts(t, s[Len(s)]) : t \in SortSlice(SubSeq(s, 1, Len(s) - 1)) }

\* flattened = append(flattened, response...)
AppendAll(flattened, response) == flattened \o response

(***************************************************************************)
(* State of one SearchRepos call.                                          *)
(***************************************************************************)
VARIABLES
    Repos,          \* args.Repos
    behav,          \* how the collaborators answer for each repository name
    searcherURL,    \* the configured searcher endpoint ("" when unset)
    mainPc,         \* position of SearchRepos itself
    spawned,        \* loop counter i of the loop that starts the workers
    fed,            \* number of entries of args.Repos sent on repositories
    repositoriesClosed,
    responsesClosed,
    wg,             \* counter of the sync.WaitGroup
    wpc,            \* position of each worker goroutine
    wpos,           \* index in args.Repos of the entry a worker holds (0: none)
    ctxErr,         \* ctx.Err() of the derived context ("nil" while not done)
    callerCancelled,\* the incoming context has been cancelled by the caller
    accPc,          \* position of the accumulate goroutine
    flattened,      \* accumulate's local slice
    ret,            \* what SearchRepos returned
    panicked,       \* a goroutine panicked: the process is gone
    firstErr,       \* history: the error of the first searchRepo that failed
    failed,         \* history: indices whose searchRepo returned an error
    started,        \* history: indices for which searchRepo was called
    requests,       \* history: indices for which a searcher request was issued
    resolveErrs,    \* history: indices for which ResolveRev returned an error
    runA,           \* AccSpec: the two accumulate runs
    ts              \* TsSpec: one call of textSearch

callVars == << Repos, behav, searcherURL, mainPc, spawned, fed, repositoriesClosed,
               responsesClosed, wg, wpc, wpos, ctxErr, callerCancelled, accPc,
               flattened, ret, panicked, firstErr, failed, started, requests,
               resolveErrs >>

vars == << callVars, runA, ts >>

\* One more identifier than the workers SearchRepos is meant to start.
WorkerIds == 1..(ConcurrencyLimit + 1)

Outcomes == {"ok", "lookupFail", "resolveFail", "transportFail"}

SearcherURLs == {"", "http://searcher"}

RECURSIVE SeqsUpTo(_, _)
SeqsUpTo(S, n) ==
    IF n = 0
    THEN { <<>> }
    ELSE SeqsUpTo(S, n - 1) \cup
         { Append(t, e) : t \in { u \in SeqsUpTo(S, n - 1) : Len(u) = n - 1 }, e \in S }

NoReturn == [kind |-> "none", value |-> <<>>, err |-> "nil"]

\* The value of runA while the whole call is modelled.
IdleRuns == << >>

\* State after `go accumulate(responses, result)`, before the worker loop.
CallInit ==
    /\ Repos \in SeqsUpTo(RepoNames, MaxRepos)
    /\ behav \in [RepoNames -> Outcomes]
    /\ searcherURL \in SearcherURLs
    /\ mainPc = "spawn"
    /\ spawned = 0
    /\ fed = 0
    /\ repositoriesClosed = FALSE
    /\ responsesClosed = FALSE
    /\ wg = 0
    /\ wpc = [w \in WorkerIds |-> "unborn"]
    /\ wpos = [w \in WorkerIds |-> 0]
    /\ ctxErr = "nil"
    /\ callerCancelled = FALSE
    /\ accPc = "recv"
    /\ flattened = <<>>
    /\ ret = NoReturn
    /\ panicked = FALSE
    /\ firstErr = "nil"
    /\ failed = {}
    /\ started = {}
    /\ requests = {}
    /\ resolveErrs = {}

\* The value of ts while textSearch is not modelled on its own.
IdleTs == << >>

Init ==
    /\ CallInit
    /\ runA = IdleRuns
    /\ ts = IdleTs

(***************************************************************************)
(* The context and the channels.                                           *)
(***************************************************************************)
\* cancel(): the first cancellation sets the context's error; later calls
\* change nothing.  Cancelling the incoming context cancels the derived one
\* in the same way.
Cancel(err) == IF err = "nil" THEN "context.Canceled" ELSE err

\* ctx.Done() is closed once the context is cancelled; nothing is ever sent
\* on it, so a receive from it completes only once it is closed.
DoneReceivable(err) == err # "nil"

\* `_, ok := <-ctx.Done()`: ok tells whether the value was sent on the
\* channel; the receive that completes because the channel is closed yields
\* ok = false.
DoneRecvOk(err) == ~(err # "nil")

\* Mutant: the loop runs once too often (`i <= 10`).
LoopCondOffByOne(i) == i <= ConcurrencyLimit

\* `i < 10` of the loop that starts the workers.
LoopCond(i) == i < ConcurrencyLimit

\* Mutant: SearchRepos goes on without waiting for the workers.
WaitSkipped(n) == TRUE

\* Mutant: the counter never gets back to zero (a wg.Done() is missing).
WaitNeverReturns(n) == n < 0

\* Mutant: wg.Wait() returns while one worker is still running.
WaitOneLeft(n) == n <= 1

\* wg.Wait() returns once the counter is zero.
WaitReturns(n) == n = 0

\* Mutant: the test of ctx.Err() is inverted.
ErrIsNil(err) == err = "nil"

\* Mutant: ctx.Err() is not looked at before the result is returned.
ErrIgnored(err) == FALSE

\* `if err := ctx.Err(); err != nil`
ErrNotNil(err) == err # "nil"

(***************************************************************************)
(* SearchRepos, the main goroutine.                                        *)
(***************************************************************************)
\* for i := 0; i < 10; i++ { wg.Add(1); go func() {...}() }
SpawnWorker ==
    /\ ~panicked
    /\ mainPc = "spawn"
    /\ IF LoopCond(spawned)
       THEN /\ spawned' = spawned + 1
            /\ wg' = wg + 1
            /\ wpc' = [wpc EXCEPT ![spawned + 1] = "range"]
            /\ mainPc' = mainPc
       ELSE /\ mainPc' = "feed"
            /\ UNCHANGED << spawned, wg, wpc >>
    /\ UNCHANGED << resolveErrs,
                    Repos, behav, searcherURL, fed, repositoriesClosed, responsesClosed,
                    wpos, ctxErr, callerCancelled, accPc, flattened, ret, panicked,
                    firstErr, failed, started, requests, runA, ts >>

\* Mutant: every send hands out the first entry of the list.
NextIndexStuck(n) == 1

\* `for _, repo := range args.Repos`: the entry sent after n entries.
NextIndex(n) == n + 1

\* `repositories <- repo` meets a worker's `range repositories`: the channel
\* is unbuffered, so the send completes only with a worker receiving.
Feed(w) ==
    /\ ~panicked
    /\ mainPc = "feed"
    /\ fed < Len(Repos)
    /\ wpc[w] = "range"
    /\ fed' = fed + 1
    /\ wpos' = [wpos EXCEPT ![w] = NextIndex(fed)]
    /\ wpc' = [wpc EXCEPT ![w] = "waitDone"]
    /\ UNCHANGED << resolveErrs, Repos, behav, searcherURL, mainPc, spawned, repositoriesClosed,
                    responsesClosed, wg, ctxErr, callerCancelled, accPc, flattened, ret,
                    panicked, firstErr, failed, started, requests, runA, ts >>

\* close(repositories), after the last send.
CloseRepositories ==
    /\ ~panicked
    /\ mainPc = "feed"
    /\ fed = Len(Repos)
    /\ repositoriesClosed' = TRUE
    /\ mainPc' = "wait"
    /\ UNCHANGED << resolveErrs, Repos, behav, searcherURL, spawned, fed, responsesClosed, wg, wpc,
                    wpos, ctxErr, callerCancelled, accPc, flattened, ret, panicked,
                    firstErr, failed, started, requests, runA, ts >>

\* wg.Wait()
WgWait ==
    /\ ~panicked
    /\ mainPc = "wait"
    /\ WaitReturns(wg)
    /\ mainPc' = "closeResponses"
    /\ UNCHANGED << resolveErrs, Repos, behav, searcherURL, spawned, fed, repositoriesClosed,
                    responsesClosed, wg, wpc, wpos, ctxErr, callerCancelled, accPc,
                    flattened, ret, panicked, firstErr, failed, started, requests, runA, ts >>

\* close(responses)
CloseResponses ==
    /\ ~panicked
    /\ mainPc = "closeResponses"
    /\ responsesClosed' = TRUE
    /\ mainPc' = "check"
    /\ UNCHANGED << resolveErrs,
                    Repos, behav, searcherURL, spawned, fed, repositoriesClosed, wg, wpc,
                    wpos, ctxErr, callerCancelled, accPc, flattened, ret, panicked,
                    firstErr, failed, started, requests, runA, ts >>

\* if err := ctx.Err(); err != nil { cancel(); return nil, err }; cancel()
CheckErr ==
    /\ ~panicked
    /\ mainPc = "check"
    /\ IF ErrNotNil(ctxErr)
       THEN /\ ret' = [kind |-> "error", value |-> <<>>, err |-> ctxErr]
            /\ mainPc' = "done"
       ELSE /\ ret' = ret
            /\ mainPc' = "recvResult"
    /\ ctxErr' = Cancel(ctxErr)
    /\ UNCHANGED << resolveErrs, Repos, behav, searcherURL, spawned, fed, repositoriesClosed,
                    responsesClosed, wg, wpc, wpos, callerCancelled, accPc, flattened,
                    panicked, firstErr, failed, started, requests, runA, ts >>

\* `return <-result, nil` meets accumulate's `result <- flattened`.
RecvResult ==
    /\ ~panicked
    /\ mainPc = "recvResult"
    /\ accPc = "send"
    /\ ret' = [kind |-> "result", value |-> flattened, err |-> "nil"]
    /\ mainPc' = "done"
    /\ accPc' = "done"
    /\ UNCHANGED << resolveErrs, Repos, behav, searcherURL, spawned, fed, repositoriesClosed,
                    responsesClosed, wg, wpc, wpos, ctxErr, callerCancelled, flattened,
                    panicked, firstErr, failed, started, requests, runA, ts >>

(***************************************************************************)
(* The worker goroutines.                                                  *)
(***************************************************************************)
RepoOf(w) == Repos[wpos[w]]

\* `for repo := range repositories` on the closed, drained channel: the loop
\* ends, the goroutine returns and the deferred wg.Done() runs.
WorkerRangeEnd(w) ==
    /\ ~panicked
    /\ wpc[w] = "range"
    /\ repositoriesClosed
    /\ wpc' = [wpc EXCEPT ![w] = "exit"]
    /\ wg' = wg - 1
    /\ UNCHANGED << resolveErrs,
                    Repos, behav, searcherURL, mainPc, spawned, fed, repositoriesClosed,
                    responsesClosed, wpos, ctxErr, callerCancelled, accPc, flattened, ret,
                    panicked, firstErr, failed, started, requests, runA, ts >>

\* if _, ok := <-ctx.Done(); ok { return }
WorkerCheckDone(w) ==
    /\ ~panicked
    /\ wpc[w] = "waitDone"
    /\ DoneReceivable(ctxErr)
    /\ IF DoneRecvOk(ctxErr)
       THEN /\ wpc' = [wpc EXCEPT ![w] = "exit"]
            /\ wg' = wg - 1
            /\ started' = started
       ELSE /\ wpc' = [wpc EXCEPT ![w] = "lookup"]
            /\ wg' = wg
            /\ started' = started \cup {wpos[w]}
    /\ UNCHANGED << resolveErrs,
                    Repos, behav, searcherURL, mainPc, spawned, fed, repositoriesClosed,
                    responsesClosed, wpos, ctxErr, callerCancelled, accPc, flattened, ret,
                    panicked, firstErr, failed, requests, runA, ts >>

\* `if err != nil { cancel(); return }` of the worker, with the deferred
\* wg.Done().
WorkerFail(w, e) ==
    /\ ctxErr' = Cancel(ctxErr)
    /\ wpc' = [wpc EXCEPT ![w] = "exit"]
    /\ wg' = wg - 1
    /\ firstErr' = IF firstErr = "nil" THEN e ELSE firstErr
    /\ failed' = failed \cup {wpos[w]}

\* searchRepo: localstore.Repos.GetByURI(ctx, repoName)
WorkerLookup(w) ==
    /\ ~panicked
    /\ wpc[w] = "lookup"
    /\ IF behav[RepoOf(w)] = "lookupFail"
       THEN WorkerFail(w, "repo not found")
       ELSE /\ wpc' = [wpc EXCEPT ![w] = "resolve"]
            /\ UNCHANGED << ctxErr, wg, firstErr, failed >>
    /\ UNCHANGED << resolveErrs,
                    Repos, behav, searcherURL, mainPc, spawned, fed, repositoriesClosed,
                    responsesClosed, wpos, callerCancelled, accPc, flattened, ret,
                    panicked, started, requests, runA, ts >>

\* searchRepo: backend.Repos.ResolveRev; its error is overwritten unread by
\* the next assignment to err, and commit.CommitID is read next: with no
\* commit that is a nil dereference, which panics.
WorkerResolve(w) ==
    /\ ~panicked
    /\ wpc[w] = "resolve"
    /\ IF behav[RepoOf(w)] = "resolveFail"
       THEN /\ panicked' = TRUE
            /\ wpc' = wpc
            /\ resolveErrs' = resolveErrs \cup {wpos[w]}
       ELSE /\ panicked' = panicked
            /\ wpc' = [wpc EXCEPT ![w] = "search"]
            /\ resolveErrs' = resolveErrs
    /\ UNCHANGED << Repos, behav, searcherURL, mainPc, spawned, fed, repositoriesClosed,
                    responsesClosed, wg, wpos, ctxErr, callerCancelled, accPc, flattened,
                    ret, firstErr, failed, started, requests, runA, ts >>

\* Mutant: the endpoint is not checked before the request is built.
NotConfiguredUnchecked(u) == FALSE

\* textSearch's `if searcherURL == ""`
NotConfigured(u) == u = ""

\* The ways client.Do(req) can end for a request that carries ctx: as the
\* searcher answers, or, with ctx done, with the context's cancellation.
DoOutcomes(answer, err) ==
    (IF answer = "transportFail" THEN {"transport error"} ELSE {"nil"})
        \cup (IF err # "nil" THEN {"request canceled"} ELSE {})

\* searchRepo: textSearch(ctx, repoName, commit.CommitID, info) and the
\* conversion of its fileMatches.
WorkerSearch(w) ==
    /\ ~panicked
    /\ wpc[w] = "search"
    /\ IF NotConfigured(searcherURL)
       THEN /\ WorkerFail(w, "searcher not configured")
            /\ requests' = requests
       ELSE /\ requests' = requests \cup {wpos[w]}
            /\ \E e \in DoOutcomes(behav[RepoOf(w)], ctxErr) :
                 IF e # "nil"
                 THEN WorkerFail(w, e)
                 ELSE /\ wpc' = [wpc EXCEPT ![w] = "send"]
                      /\ UNCHANGED << ctxErr, wg, firstErr, failed >>
    /\ UNCHANGED << resolveErrs,
                    Repos, behav, searcherURL, mainPc, spawned, fed, repositoriesClosed,
                    responsesClosed, wpos, callerCancelled, accPc, flattened, ret,
                    panicked, started, runA, ts >>

\* `responses <- rm` meets accumulate's `range responses`, which appends.
\* A send on the closed channel panics.
WorkerSend(w) ==
    /\ ~panicked
    /\ wpc[w] = "send"
    /\ IF responsesClosed
       THEN /\ panicked' = TRUE
            /\ UNCHANGED << flattened, wpc, wpos >>
       ELSE /\ accPc = "recv"
            /\ flattened' = AppendAll(flattened, RepoMatches(RepoOf(w)))
            /\ wpc' = [wpc EXCEPT ![w] = "range"]
            /\ wpos' = [wpos EXCEPT ![w] = 0]
            /\ panicked' = panicked
    /\ UNCHANGED << resolveErrs,
                    Repos, behav, searcherURL, mainPc, spawned, fed, repositoriesClosed,
                    responsesClosed, wg, ctxErr, callerCancelled, accPc, ret,
                    firstErr, failed, started, requests, runA, ts >>

(***************************************************************************)
(* accumulate and the caller.                                              *)
(***************************************************************************)
\* `range responses` ends on the closed channel; then sort.Slice.
AccSort ==
    /\ ~panicked
    /\ accPc = "recv"
    /\ responsesClosed
    /\ flattened' \in SortSlice(flattened)
    /\ accPc' = "send"
    /\ UNCHANGED << resolveErrs,
                    Repos, behav, searcherURL, mainPc, spawned, fed, repositoriesClosed,
                    responsesClosed, wg, wpc, wpos, ctxErr, callerCancelled, ret,
                    panicked, firstErr, failed, started, requests, runA, ts >>

\* The caller cancels the context it passed in, at any time during the call.
CallerCancel ==
    /\ ~panicked
    /\ mainPc # "done"
    /\ ~callerCancelled
    /\ callerCancelled' = TRUE
    /\ ctxErr' = Cancel(ctxErr)
    /\ UNCHANGED << resolveErrs,
                    Repos, behav, searcherURL, mainPc, spawned, fed, repositoriesClosed,
                    responsesClosed, wg, wpc, wpos, accPc, flattened, ret, panicked,
                    firstErr, failed, started, requests, runA, ts >>

\* A step of one of the goroutines SearchRepos consists of.  A panic ends the
\* process: every step requires that none has happened.
ProgramStep ==
    \/ SpawnWorker
    \/ \E w \in WorkerIds : Feed(w)
    \/ CloseRepositories
    \/ WgWait
    \/ CloseResponses
    \/ CheckErr
    \/ RecvResult
    \/ \E w \in WorkerIds : WorkerRangeEnd(w)
    \/ \E w \in WorkerIds : WorkerCheckDone(w)
    \/ \E w \in WorkerIds : WorkerLookup(w)
    \/ \E w \in WorkerIds : WorkerResolve(w)
    \/ \E w \in WorkerIds : WorkerSearch(w)
    \/ \E w \in WorkerIds : WorkerSend(w)
    \/ AccSort

Next ==
    \/ SpawnWorker
    \/ \E w \in WorkerIds : Feed(w)
    \/ CloseRepositories
    \/ WgWait
    \/ CloseResponses
    \/ CheckErr
    \/ RecvResult
    \/ \E w \in WorkerIds : WorkerRangeEnd(w)
    \/ \E w \in WorkerIds : WorkerCheckDone(w)
    \/ \E w \in WorkerIds : WorkerLookup(w)
    \/ \E w \in WorkerIds : WorkerResolve(w)
    \/ \E w \in WorkerIds : WorkerSearch(w)
    \/ \E w \in WorkerIds : WorkerSend(w)
    \/ AccSort
    \/ CallerCancel

Spec == Init /\ [][Next]_vars

LiveSpec == Spec /\ WF_vars(ProgramStep)

(***************************************************************************)
(* Properties of the SearchRepos call.                                     *)
(***************************************************************************)
Returned == mainPc = "done"
ReturnedResult == mainPc = "done" /\ ret.kind = "result"
ReturnedError == mainPc = "done" /\ ret.kind = "error"

\* Every collaborator answers every repository of the list successfully.
AllAnswersOk ==
    /\ searcherURL # ""
    /\ \A k \in 1..Len(Repos) : behav[Repos[k]] = "ok"

\* Workers that hold an identifier whose search has not finished.
Busy == { w \in WorkerIds : wpc[w] \in {"waitDone", "lookup", "resolve", "search", "send"} }

\* Workers that have been started and have not returned.
Active == { w \in WorkerIds : wpc[w] \notin {"unborn", "exit"} }

\* The concatenation of the repoMatch batches of Repos[1..k].
RECURSIVE MatchesUpTo(_)
MatchesUpTo(k) ==
    IF k = 0 THEN <<>> ELSE MatchesUpTo(k - 1) \o RepoMatches(Repos[k])

Occurrences(s, e) == Cardinality({ k \in 1..Len(s) : s[k] = e })

\* s and t hold the same elements, each the same number of times.
IsPermutation(s, t) ==
    /\ Len(s) = Len(t)
    /\ \A k \in 1..Len(t) : Occurrences(s, t[k]) = Occurrences(t, t[k])

\* C1: success-path liveness.  With a non-empty list, every search
\* succeeding and the caller not cancelling, SearchRepos eventually returns a
\* result.  Under fair scheduling that rules out every state in which these
\* premises hold, no result has been returned and no goroutine can take a
\* step: the call would stay there for ever.
C1_SuccessPathReturns ==
    (Len(Repos) > 0 /\ AllAnswersOk /\ ~callerCancelled /\ failed = {})
        => (ReturnedResult \/ ENABLED ProgramStep)

\* C2: failure-path termination.  Once a search has failed, SearchRepos
\* eventually joins the workers and returns the error; so after a failure
\* there is no state in which the process is still running, the error has
\* not been returned and no goroutine can take a step.
C2_FailurePathReturns ==
    (failed # {} /\ ~panicked) => (ReturnedError \/ ENABLED ProgramStep)

\* A per-repository search has failed: searchRepo returned an error, or it
\* panicked on the revision that could not be resolved.
SomeSearchFailed == failed # {} \/ panicked

\* C3: all-or-nothing.  Once a per-repository search has failed, SearchRepos
\* never returns a result: what it returns is an error, with no repoMatch.
C3_AllOrNothing ==
    SomeSearchFailed =>
        /\ ret.kind # "result"
        /\ ret.value = <<>>
        /\ Returned => ret.kind = "error" /\ ret.err # "nil"

\* C3 witness: the error has been returned after one search failed and
\* another one had delivered its batch.
C3_Witness == ReturnedError /\ failed # {} /\ Len(flattened) > 0

\* C4: first-error propagation.  The error SearchRepos returns is the error
\* of the first worker whose search failed.
C4_FirstErrorReturned ==
    (ReturnedError /\ firstErr # "nil") => ret.err = firstErr

C8_NoWorkerLeak == Returned => Active = {}

\* C8 witness: SearchRepos has returned after its workers searched, and all
\* of them have exited.
C8_Witness ==
    /\ Returned
    /\ started # {}
    /\ Cardinality({ w \in WorkerIds : wpc[w] = "exit" }) = ConcurrencyLimit

EmptyResult == [kind |-> "result", value |-> <<>>, err |-> "nil"]

\* C9: empty input.  With no repository name, no worker ever takes an
\* identifier, starts a search or issues a searcher request; what SearchRepos
\* returns to a caller that has not cancelled is the empty result and no
\* error; and it terminates: as long as the caller has not cancelled and
\* SearchRepos has not returned, some goroutine can take a step (every step
\* moves a goroutine forward, so under fair scheduling the return is reached).
C9_EmptyInput ==
    (Len(Repos) = 0) =>
        /\ started = {} /\ requests = {} /\ Busy = {}
        /\ (Returned /\ ~callerCancelled) => ret = EmptyResult
        /\ ~callerCancelled => (Returned \/ ENABLED ProgramStep)

\* C9 witness: the empty list has been answered with the empty result, the
\* caller not having cancelled.
C9_Witness ==
    /\ Len(Repos) = 0
    /\ ~callerCancelled
    /\ Returned
    /\ ret = EmptyResult
    /\ Active = {}

\* C10: bounded concurrency.  At most ConcurrencyLimit searches are in
\* progress at any time.
C10_BoundedConcurrency == Cardinality(Busy) <= ConcurrencyLimit

\* C10 witness: as many searches as the limit allows are in progress while
\* the list still has entries to feed.
C10_Witness ==
    /\ Cardinality(Busy) = ConcurrencyLimit
    /\ fed < Len(Repos)
    /\ \E w \in WorkerIds : wpc[w] = "search"

\* C12: once the cancellation signal is set, a worker that has taken an
\* identifier from the queue and observes the signal exits without starting
\* the search (no snapshot resolution, no backend call); a worker that does
\* not find the signal set proceeds to its search without waiting for it.
C12_CancellationStopsNewWork ==
    /\ [](\A w \in WorkerIds :
            (~panicked /\ wpc[w] = "waitDone" /\ ctxErr = "nil") => ENABLED WorkerCheckDone(w))
    /\ [][\A w \in WorkerIds :
            (wpc[w] = "waitDone" /\ ctxErr # "nil" /\ wpc'[w] # "waitDone")
                => (wpc'[w] = "exit" /\ started' = started)]_vars

\* C13: join before close.  The responses channel is closed only after every
\* worker has returned, whether or not the context was cancelled; so no
\* worker is ever at its send on responses once the channel is closed.
C13_JoinBeforeClose ==
    responsesClosed =>
        /\ Active = {}
        /\ spawned = ConcurrencyLimit
        /\ wg = 0
        /\ \A w \in WorkerIds : wpc[w] # "send"

\* The channel is closed after workers have searched and sent a batch.
C13_Witness ==
    /\ responsesClosed
    /\ ctxErr # "nil"
    /\ flattened # <<>>
    /\ Active = {}

\* How many times accumulate has handed its sequence over on result: the
\* send is its last statement, so once if it has returned, else never.
Emissions == IF accPc = "done" THEN 1 ELSE 0

\* C14: in every call accumulate emits its final sequence exactly once and
\* never before the responses channel is closed, on the success path and on
\* the error path: it is not past its loop while the channel is open, and
\* when SearchRepos has returned and no goroutine can take a step the
\* sequence has been handed over once.
C14_EmitsExactlyOnce ==
    /\ accPc \in {"send", "done"} => responsesClosed
    /\ (Returned /\ ~ENABLED ProgramStep) => Emissions = 1

\* C19: no task outlives the call.  In a state in which SearchRepos has
\* returned, the accumulate goroutine has returned as well, unless it is
\* still on its way there (the sort after the end of its loop); it is never
\* left at `result <- flattened` with nobody to receive.
C19_AggregatorTerminates ==
    Returned => (accPc = "done" \/ ENABLED AccSort)

\* C15: a failed snapshot resolution is an error of the worker.  For every
\* position whose ResolveRev failed, searchRepo has returned an error (the
\* position is among the failed searches) without a request to the searcher,
\* the cancellation signal is set and the worker that held it has returned.
C15_ResolveFailureIsError ==
    \A k \in resolveErrs :
        /\ k \in failed
        /\ k \notin requests
        /\ ctxErr # "nil"
        /\ \A w \in WorkerIds : wpos[w] = k => wpc[w] = "exit"

\* The identity triple (repository, snapshot id, file path) of a repoMatch.
Identity(m) == << m.uri.Path, m.uri.RawQuery, m.uri.Fragment >>

NoTwoAlike(s) == \A i, j \in 1..Len(s) : i # j => Identity(s[i]) # Identity(s[j])

Holders(k) == { w \in WorkerIds : wpos[w] = k }

\* C20: each position of the list is dispatched once, in list order.  No two
\* workers hold the same position, and a worker holds only a position that
\* has been fed; each feeding step passes the next position of the list to
\* exactly one worker, which held none, and changes no other worker's.
C20_DispatchedOnceInOrder ==
    /\ [](\A k \in 1..Len(Repos) : Cardinality(Holders(k)) <= 1 /\ (Holders(k) # {} => k <= fed))
    /\ [][fed' # fed =>
            /\ fed' = fed + 1
            /\ \E w \in WorkerIds :
                 /\ wpos[w] = 0
                 /\ wpos'[w] = fed'
                 /\ \A v \in WorkerIds \ {w} : wpos'[v] = wpos[v] /\ wpos'[v] # fed']_vars

\* More positions have been fed than there are workers, and the last one is
\* held by a worker that has searched another position before.
C20_Witness ==
    /\ fed > ConcurrencyLimit
    /\ Holders(fed) # {}
    /\ flattened # <<>>


(***************************************************************************)
(* AccSpec: accumulate on its own.  The searcher's answer for each          *)
(* repository is fixed; the batches of the searched repositories are sent  *)
(* on the responses channel of two runs, one after the other, in any       *)
(* order; each run appends them as they arrive, sorts after the channel is *)
(* closed and hands the slice over on result.                              *)
(***************************************************************************)
LineMatchCounts == {0, 1}

\* The fileMatch lists a searcher response can hold: each file at most once.
Responses ==
    { fms \in SeqsUpTo([JPath : FilePaths, n : LineMatchCounts], Cardinality(FilePaths)) :
        \A i, j \in 1..Len(fms) : i # j => fms[i].JPath # fms[j].JPath }

\* The batch searchRepo returns for repository r when the searcher answers fms.
BatchOf(r, fms) == [k \in 1..Len(fms) |-> RepoMatchOf(r, CommitOf(r), fms[k])]

NewRun == [pending |-> {}, flattened |-> <<>>, presort |-> <<>>, pc |-> "recv", out |-> <<>>]

\* The rest of the state while accumulate is modelled on its own.
CallIdle ==
    /\ Repos = <<>>
    /\ behav = [r \in RepoNames |-> "ok"]
    /\ searcherURL = "http://searcher"
    /\ mainPc = "idle"
    /\ spawned = 0
    /\ fed = 0
    /\ repositoriesClosed = FALSE
    /\ responsesClosed = FALSE
    /\ wg = 0
    /\ wpc = [w \in WorkerIds |-> "unborn"]
    /\ wpos = [w \in WorkerIds |-> 0]
    /\ ctxErr = "nil"
    /\ callerCancelled = FALSE
    /\ accPc = "idle"
    /\ flattened = <<>>
    /\ ret = NoReturn
    /\ panicked = FALSE
    /\ firstErr = "nil"
    /\ failed = {}
    /\ started = {}
    /\ requests = {}
    /\ resolveErrs = {}

AccInit ==
    /\ CallIdle
    /\ ts = IdleTs
    /\ \E resp \in [RepoNames -> Responses], names \in SeqsUpTo(RepoNames, MaxBatches) :
         runA = [batches |-> [k \in 1..Len(names) |-> BatchOf(names[k], resp[names[k]])],
                 run |-> [r \in 1..2 |-> [NewRun EXCEPT !.pending = 1..Len(names)]]]

\* The second run starts when the first has handed over its slice.
Running(r) == r = 1 \/ runA.run[1].pc = "done"

\* `for response := range responses`: the next batch arrives and is appended.
AccReceive(r, k) ==
    /\ Running(r)
    /\ runA.run[r].pc = "recv"
    /\ k \in runA.run[r].pending
    /\ runA' = [runA EXCEPT
                  !.run[r].pending = @ \ {k},
                  !.run[r].flattened = AppendAll(@, runA.batches[k])]
    /\ UNCHANGED << callVars, ts >>

\* sort.Slice is a function of the slice it is given: on the slice the other
\* run sorted it gives what it gave there.
SortOutcomes(r) ==
    LET other == runA.run[3 - r]
    IN  IF other.pc \in {"send", "done"} /\ other.presort = runA.run[r].flattened
        THEN { other.flattened }
        ELSE SortSlice(runA.run[r].flattened)

\* The channel is closed after the last batch: the loop ends, then sort.Slice.
AccSortRun(r) ==
    /\ Running(r)
    /\ runA.run[r].pc = "recv"
    /\ runA.run[r].pending = {}
    /\ \E s \in SortOutcomes(r) :
         runA' = [runA EXCEPT
                    !.run[r].presort = runA.run[r].flattened,
                    !.run[r].flattened = s,
                    !.run[r].pc = "send"]
    /\ UNCHANGED << callVars, ts >>

\* result <- flattened
AccEmit(r) ==
    /\ runA.run[r].pc = "send"
    /\ runA' = [runA EXCEPT !.run[r].out = runA.run[r].flattened,
                            !.run[r].pc = "done"]
    /\ UNCHANGED << callVars, ts >>

AccNext ==
    \/ \E r \in 1..2 : \E k \in 1..MaxBatches : AccReceive(r, k)
    \/ \E r \in 1..2 : AccSortRun(r)
    \/ \E r \in 1..2 : AccEmit(r)

AccSpec == AccInit /\ [][AccNext]_vars

(***************************************************************************)
(* TsSpec: one call of textSearch(ctx, repo, commit, p), step by step,     *)
(* with a caller that may cancel ctx while the call runs.                  *)
(***************************************************************************)
Patterns == {"foo"}

PatternInfos ==
    [Pattern : Patterns, IsRegExp : BOOLEAN, IsWordMatch : BOOLEAN, IsCaseSensitive : BOOLEAN]

\* What the searcher does with a request that reaches it.
Answers == {"ok", "transportFail", "non200", "decodeFail"}

\* The keys of q after lines 81-94.
QueryKeys(p) ==
    {"Repo", "Commit", "Pattern"}
        \cup (IF p.IsRegExp THEN {"IsRegExp"} ELSE {})
        \cup (IF p.IsWordMatch THEN {"IsWordMatch"} ELSE {})
        \cup (IF p.IsCaseSensitive THEN {"IsCaseSensitive"} ELSE {})

\* Mutant: IsWordMatch is set on the IsRegExp flag (a copied `if`).
QueryOfCopied(repo, commit, p) ==
    [k \in QueryKeys([p EXCEPT !.IsWordMatch = p.IsRegExp]) |->
        CASE k = "Repo" -> repo
          [] k = "Commit" -> commit
          [] k = "Pattern" -> p.Pattern
          [] OTHER -> "true"]

\* q := url.Values{...} and the three q.Set calls.
QueryOf(repo, commit, p) ==
    [k \in QueryKeys(p) |->
        CASE k = "Repo" -> repo
          [] k = "Commit" -> commit
          [] k = "Pattern" -> p.Pattern
          [] OTHER -> "true"]

\* The keys url.Values.Encode can meet here, in the order it sorts them.
SortedKeys == << "Commit", "IsCaseSensitive", "IsRegExp", "IsWordMatch", "Pattern", "Repo" >>

IsKeyOf(q) == [k \in {"Commit", "IsCaseSensitive", "IsRegExp", "IsWordMatch",
                      "Pattern", "Repo"} |-> k \in DOMAIN q]

\* q.Encode(): the key=value pairs of q, sorted by key.
Encode(q) ==
    LET present(k) == IsKeyOf(q)[k]
        keys == SelectSeq(SortedKeys, present)
    IN  [i \in 1..Len(keys) |-> << keys[i], q[keys[i]] >>]

NoMatches == <<>>

TsInit ==
    /\ CallIdle
    /\ runA = IdleRuns
    /\ \E u \in SearcherURLs, r \in RepoNames, p \in PatternInfos, a \in Answers :
         ts = [pc |-> "start", url |-> u, repo |-> r, commit |-> CommitOf(r), p |-> p,
               p0 |-> p, answer |-> a, ctxErr |-> "nil", q |-> << >>, rawQuery |-> << >>,
               sent |-> FALSE, cancelledInFlight |-> FALSE,
               ret |-> [matches |-> NoMatches, err |-> "none"]]

TsReturn(matches, err) ==
    ts' = [ts EXCEPT !.pc = "done", !.ret = [matches |-> matches, err |-> err]]

\* if searcherURL == "" { return nil, errors.New(...) }
TsCheckConfig ==
    /\ ts.pc = "start"
    /\ IF NotConfigured(ts.url)
       THEN TsReturn(NoMatches, "searcher not configured")
       ELSE ts' = [ts EXCEPT !.pc = "build"]
    /\ UNCHANGED << callVars, runA >>

\* Lines 81-94: the query values.
TsBuildQuery ==
    /\ ts.pc = "build"
    /\ ts' = [ts EXCEPT !.pc = "newRequest", !.q = QueryOf(ts.repo, ts.commit, ts.p)]
    /\ UNCHANGED << callVars, runA >>

\* http.NewRequest, req.URL.RawQuery = q.Encode(), req.WithContext(ctx)
TsNewRequest ==
    /\ ts.pc = "newRequest"
    /\ ts' = [ts EXCEPT !.pc = "do", !.rawQuery = Encode(ts.q)]
    /\ UNCHANGED << callVars, runA >>

\* client.Do(req) sends the request.
TsSend ==
    /\ ts.pc = "do"
    /\ ts' = [ts EXCEPT !.pc = "inflight", !.sent = TRUE]
    /\ UNCHANGED << callVars, runA >>

\* client.Do(req) returns.
TsDo ==
    /\ ts.pc = "inflight"
    /\ \E e \in DoOutcomes(ts.answer, ts.ctxErr) :
         IF e # "nil"
         THEN TsReturn(NoMatches, e)
         ELSE ts' = [ts EXCEPT !.pc = "status"]
    /\ UNCHANGED << callVars, runA >>

\* if resp.StatusCode != 200 { ... return nil, fmt.Errorf("non-200 response ...") }
TsStatus ==
    /\ ts.pc = "status"
    /\ IF ts.answer = "non200"
       THEN TsReturn(NoMatches, "non-200 response")
       ELSE ts' = [ts EXCEPT !.pc = "decode"]
    /\ UNCHANGED << callVars, runA >>

\* err = json.NewDecoder(resp.Body).Decode(&matches); return matches, err
TsDecode ==
    /\ ts.pc = "decode"
    /\ IF ts.answer = "decodeFail"
       THEN TsReturn(NoMatches, "decode error")
       ELSE TsReturn(FileMatches(ts.repo), "nil")
    /\ UNCHANGED << callVars, runA >>

\* The context textSearch was given is cancelled while the call runs.
TsCancel ==
    /\ ts.pc # "done"
    /\ ts.ctxErr = "nil"
    /\ ts' = [ts EXCEPT !.ctxErr = Cancel(ts.ctxErr),
                        !.cancelledInFlight = (ts.pc = "inflight")]
    /\ UNCHANGED << callVars, runA >>

TsNext ==
    \/ TsCheckConfig
    \/ TsBuildQuery
    \/ TsNewRequest
    \/ TsSend
    \/ TsDo
    \/ TsStatus
    \/ TsDecode
    \/ TsCancel

TsSpec == TsInit /\ [][TsNext]_vars

(***************************************************************************)
(* Properties of accumulate.                                               *)
(***************************************************************************)
\* The file-path component of a repoMatch's identity
\* (repository, snapshot id, file path).
FilePathOf(m) == m.uri.Fragment

\* The sequences accumulate has emitted (sent, or is sending, on result).
Emitted == { runA.run[r].flattened : r \in { q \in 1..2 : runA.run[q].pc \in {"send", "done"} } }

\* C6: sort law.  In a sequence accumulate emits, an entry with fewer line
\* matches precedes one with more, and of two entries with the same number
\* of line matches and different file paths the one with the
\* lexicographically smaller file path comes first.
C6_SortLaw ==
    \A s \in Emitted : \A i, j \in 1..Len(s) :
        /\ s[i].lineMatches < s[j].lineMatches => i < j
        /\ (s[i].lineMatches = s[j].lineMatches /\ FilePathOf(s[i]) # FilePathOf(s[j]))
               => (i < j <=> StringsCompare(FilePathOf(s[i]), FilePathOf(s[j])) < 0)

TsReturned == ts.pc = "done"

\* C11: when no backend endpoint is configured, textSearch returns an error
\* and no matches for every (repo, commit, p), and no request to the search
\* backend is issued in that execution.
C11_ConfigErrorBeforeNetwork ==
    ts.url = "" =>
        /\ ~ts.sent
        /\ ts.pc \in {"start", "done"}
        /\ TsReturned => (ts.ret.err = "searcher not configured" /\ ts.ret.matches = NoMatches)

C11_Witness ==
    /\ ts.url = ""
    /\ TsReturned
    /\ ts.ret.err = "searcher not configured"
    /\ ~ts.sent

\* The error textSearch returns when the request runs to completion with the
\* outcome the searcher gives it.
AnswerErr(a) ==
    CASE a = "ok" -> "nil"
      [] a = "transportFail" -> "transport error"
      [] a = "non200" -> "non-200 response"
      [] a = "decodeFail" -> "decode error"

\* C16: in-flight calls are not aborted.  When the context is cancelled while
\* the request to the searcher is in flight, the request runs to completion
\* and textSearch ends with the outcome the searcher gives it: its matches if
\* the searcher answers, the searcher's own failure otherwise.
C16_InFlightNotAborted ==
    (ts.cancelledInFlight /\ TsReturned) =>
        /\ ts.ret.err = AnswerErr(ts.answer)
        /\ ts.answer = "ok" => ts.ret.matches = FileMatches(ts.repo)

\* The values the encoded request carries for the parameter k.
ParamValues(k) ==
    { ts.rawQuery[i][2] : i \in { j \in 1..Len(ts.rawQuery) : ts.rawQuery[j][1] = k } }

\* The request has been built.
TsRequestBuilt == ts.pc \in {"do", "inflight", "status", "decode"} \/ (TsReturned /\ ts.sent)

\* C17: for every patternInfo (all 8 combinations of the three flags) the
\* request textSearch builds carries Repo, Commit and Pattern with the
\* arguments' values, carries each of IsRegExp, IsWordMatch, IsCaseSensitive
\* with the value "true" exactly when that flag is set and not at all
\* otherwise, and no parameter twice; the patternInfo is left as it was.
C17_RequestEncoding ==
    /\ ts.p = ts.p0
    /\ TsRequestBuilt =>
        /\ ParamValues("Repo") = {ts.repo}
        /\ ParamValues("Commit") = {ts.commit}
        /\ ParamValues("Pattern") = {ts.p0.Pattern}
        /\ ParamValues("IsRegExp") = (IF ts.p0.IsRegExp THEN {"true"} ELSE {})
        /\ ParamValues("IsWordMatch") = (IF ts.p0.IsWordMatch THEN {"true"} ELSE {})
        /\ ParamValues("IsCaseSensitive") = (IF ts.p0.IsCaseSensitive THEN {"true"} ELSE {})
        /\ Len(ts.rawQuery) = 3 + Cardinality({ f \in {"IsRegExp", "IsWordMatch", "IsCaseSensitive"} : ts.p0[f] })

\* A request for a pattern with two of the three flags set has
\* been sent.
C17_Witness ==
    /\ ts.sent
    /\ ts.p0.IsWordMatch
    /\ ~ts.p0.IsRegExp
    /\ ts.p0.IsCaseSensitive
    /\ Len(ts.rawQuery) = 5

=============================================================================
